---- MODULE Spec2Model ----
(***************************************************************************)
(* MIDI CC #122 (Local Control) sender: the input validators, the message  *)
(* encoder and the value interpreter of src/src/lib.rs.                    *)
(*                                                                         *)
(* A text is a sequence of characters, each character a one-character      *)
(* string.  A u8 is a number in 0..U8Max.  Option<String> is a sequence of *)
(* length 0 (None) or 1 (Some(msg)); Result<[u8;3], Box<dyn Error>> is     *)
(* <<"Ok", bytes>> or <<"Err", text>>.                                     *)
(***************************************************************************)
EXTENDS Naturals, Sequences, FiniteSets

\* Longest input text drawn for the validators.
MaxLen == 3

\* u8::MAX, the largest number a u8 parameter or a parsed u8 can hold.
U8Max == 255

U8 == 0..U8Max

(***************************************************************************)
(* Characters.                                                             *)
(***************************************************************************)
Digits == <<"0","1","2","3","4","5","6","7","8","9">>

DigitSet == {Digits[i] : i \in 1..10}

\* char::is_whitespace, over the characters of the alphabet.
WhitespaceChars == {" ", "\t", "\n", "\r"}

\* Characters that are neither digits nor whitespace: the two signs, the
\* decimal point, a letter (as in "0x40" or "64e0") and a symbol (as in
\* "!@#$"; a non-ASCII symbol is the same to the parser: no ASCII digit).
OtherChars == {"+", "-", ".", "x", "%"}

Alphabet == DigitSet \cup WhitespaceChars \cup OtherChars

Texts == UNION {[1..k -> Alphabet] : k \in 0..MaxLen}

IsDigit(c) == c \in DigitSet

IsWhitespace(c) == c \in WhitespaceChars

\* (c as char).to_digit(10) for a digit c.
DigitValue(c) == CHOOSE d \in 0..9 : Digits[d + 1] = c

(***************************************************************************)
(* str::trim: trim_start, then trim_end.                                   *)
(***************************************************************************)
RECURSIVE TrimStart(_)
TrimStart(s) ==
    IF s # <<>> /\ IsWhitespace(Head(s)) THEN TrimStart(Tail(s)) ELSE s

RECURSIVE TrimEnd(_)
TrimEnd(s) ==
    IF s # <<>> /\ IsWhitespace(s[Len(s)])
    THEN TrimEnd(SubSeq(s, 1, Len(s) - 1))
    ELSE s

\* Variant of Trim that strips leading whitespace only (trim_start).
TrimLeadingOnly(s) == TrimStart(s)

Trim(s) == TrimEnd(TrimStart(s))

(***************************************************************************)
(* str::parse::<u8>: an optional leading '+', then one or more ASCII       *)
(* digits accumulated with checked arithmetic in 8 bits.  '-' is no sign   *)
(* for an unsigned type: it is an invalid digit.                           *)
(***************************************************************************)
ParseOk(n) == [ok |-> TRUE, val |-> n, kind |-> "Ok"]

ParseErr(k) == [ok |-> FALSE, val |-> 0, kind |-> k]

\* Variant of ParseDigits with wrapping instead of checked arithmetic.
RECURSIVE ParseDigitsWrapping(_, _)
ParseDigitsWrapping(digits, result) ==
    IF digits = <<>> THEN ParseOk(result)
    ELSE IF ~IsDigit(Head(digits)) THEN ParseErr("InvalidDigit")
    ELSE ParseDigitsWrapping(Tail(digits),
             (result * 10 + DigitValue(Head(digits))) % (U8Max + 1))

RECURSIVE ParseDigits(_, _)
ParseDigits(digits, result) ==
    IF digits = <<>> THEN ParseOk(result)
    ELSE IF ~IsDigit(Head(digits)) THEN ParseErr("InvalidDigit")
    ELSE IF result * 10 > U8Max THEN ParseErr("PosOverflow")
    ELSE IF result * 10 + DigitValue(Head(digits)) > U8Max
         THEN ParseErr("PosOverflow")
    ELSE ParseDigits(Tail(digits), result * 10 + DigitValue(Head(digits)))

\* Variant of ParseU8 that takes '-' as a sign too, as the parser of a
\* signed type does, and keeps the magnitude.
ParseU8AnySign(src) ==
    IF src = <<>> THEN ParseErr("Empty")
    ELSE IF src = <<"+">> \/ src = <<"-">> THEN ParseErr("InvalidDigit")
    ELSE IF Head(src) = "+" \/ Head(src) = "-"
    THEN ParseDigits(Tail(src), 0)
    ELSE ParseDigits(src, 0)

ParseU8(src) ==
    IF src = <<>> THEN ParseErr("Empty")
    ELSE IF src = <<"+">> \/ src = <<"-">> THEN ParseErr("InvalidDigit")
    ELSE IF Head(src) = "+" THEN ParseDigits(Tail(src), 0)
    ELSE ParseDigits(src, 0)

\* format!("{}", n) for a u8: decimal, no sign, no leading zeros.
RECURSIVE ToString(_)
ToString(n) ==
    IF n < 10 THEN <<Digits[n + 1]>>
    ELSE ToString(n \div 10) \o <<Digits[(n % 10) + 1]>>

None == <<>>

Some(x) == <<x>>

(***************************************************************************)
(* The literal pieces of the format strings.                               *)
(***************************************************************************)
\* lib.rs:12  "Warning: Value "
ValueRangePrefix ==
    <<"W","a","r","n","i","n","g",":"," ","V","a","l","u","e"," ">>

\* lib.rs:12  " is out of range (0-127). Using default value 0."
ValueRangeSuffix ==
    <<" ","i","s"," ","o","u","t"," ","o","f"," ","r","a","n","g","e"," ","(",
    "0","-","1","2","7",")","."," ","U","s","i","n","g"," ","d","e","f","a",
    "u","l","t"," ","v","a","l","u","e"," ","0",".">>

\* lib.rs:13  "Warning: Invalid value '"
ValueInvalidPrefix ==
    <<"W","a","r","n","i","n","g",":"," ","I","n","v","a","l","i","d"," ","v",
    "a","l","u","e"," ","'">>

\* lib.rs:13  "'. Using default value 0."
ValueInvalidSuffix ==
    <<"'","."," ","U","s","i","n","g"," ","d","e","f","a","u","l","t"," ","v",
    "a","l","u","e"," ","0",".">>

\* lib.rs:26  "Warning: Channel "
ChannelRangePrefix ==
    <<"W","a","r","n","i","n","g",":"," ","C","h","a","n","n","e","l"," ">>

\* lib.rs:26  " is out of range (0-15). Using default channel 0."
ChannelRangeSuffix ==
    <<" ","i","s"," ","o","u","t"," ","o","f"," ","r","a","n","g","e"," ","(",
    "0","-","1","5",")","."," ","U","s","i","n","g"," ","d","e","f","a","u",
    "l","t"," ","c","h","a","n","n","e","l"," ","0",".">>

\* lib.rs:27  "Warning: Invalid channel '"
ChannelInvalidPrefix ==
    <<"W","a","r","n","i","n","g",":"," ","I","n","v","a","l","i","d"," ","c",
    "h","a","n","n","e","l"," ","'">>

\* lib.rs:27  "'. Using default channel 0."
ChannelInvalidSuffix ==
    <<"'","."," ","U","s","i","n","g"," ","d","e","f","a","u","l","t"," ","c",
    "h","a","n","n","e","l"," ","0",".">>

\* lib.rs:35  "Invalid MIDI value: "
ValueErrPrefix ==
    <<"I","n","v","a","l","i","d"," ","M","I","D","I"," ","v","a","l","u","e",
    ":"," ">>

\* lib.rs:35  ". Must be 0-127."
ValueErrSuffix ==
    <<"."," ","M","u","s","t"," ","b","e"," ","0","-","1","2","7",".">>

\* lib.rs:38  "Invalid MIDI channel: "
ChannelErrPrefix ==
    <<"I","n","v","a","l","i","d"," ","M","I","D","I"," ","c","h","a","n","n",
    "e","l",":"," ">>

\* lib.rs:38  ". Must be 0-15."
ChannelErrSuffix ==
    <<"."," ","M","u","s","t"," ","b","e"," ","0","-","1","5",".">>

(***************************************************************************)
(* The functions of src/src/lib.rs.                                        *)
(***************************************************************************)
\* Largest MIDI data value.
MaxValue == 127

\* Largest MIDI channel.
MaxChannel == 15

\* Control Change status byte for channel 0 (0xB0).
StatusBase == 176

\* Controller number of Local Control.
Controller == 122

\* Variant of validate_midi_value with the bound test val < 127.
validate_midi_value_exclusive_bound(input) ==
    IF Trim(input) = <<>> THEN <<0, None>>
    ELSE LET r == ParseU8(Trim(input))
         IN  IF r.ok /\ r.val < MaxValue THEN <<r.val, None>>
             ELSE IF r.ok
             THEN <<0, Some(ValueRangePrefix \o ToString(r.val)
                            \o ValueRangeSuffix)>>
             ELSE <<0, Some(ValueInvalidPrefix \o Trim(input)
                            \o ValueInvalidSuffix)>>

\* Variant of validate_midi_value whose range diagnostic prints the number
\* clamped to the bound.
validate_midi_value_clamped_text(input) ==
    IF Trim(input) = <<>> THEN <<0, None>>
    ELSE LET r == ParseU8(Trim(input))
         IN  IF r.ok /\ r.val <= MaxValue THEN <<r.val, None>>
             ELSE IF r.ok
             THEN <<0, Some(ValueRangePrefix \o ToString(MaxValue)
                            \o ValueRangeSuffix)>>
             ELSE <<0, Some(ValueInvalidPrefix \o Trim(input)
                            \o ValueInvalidSuffix)>>

\* Variant of validate_midi_value that warns about a number above the bound
\* and returns it all the same.
validate_midi_value_keeps_number(input) ==
    IF Trim(input) = <<>> THEN <<0, None>>
    ELSE LET r == ParseU8(Trim(input))
         IN  IF r.ok /\ r.val <= MaxValue THEN <<r.val, None>>
             ELSE IF r.ok
             THEN <<r.val, Some(ValueRangePrefix \o ToString(r.val)
                                \o ValueRangeSuffix)>>
             ELSE <<0, Some(ValueInvalidPrefix \o Trim(input)
                            \o ValueInvalidSuffix)>>

validate_midi_value(input) ==
    IF Trim(input) = <<>> THEN <<0, None>>
    ELSE LET r == ParseU8(Trim(input))
         IN  IF r.ok /\ r.val <= MaxValue THEN <<r.val, None>>
             ELSE IF r.ok
             THEN <<0, Some(ValueRangePrefix \o ToString(r.val)
                            \o ValueRangeSuffix)>>
             ELSE <<0, Some(ValueInvalidPrefix \o Trim(input)
                            \o ValueInvalidSuffix)>>

\* Variant of validate_midi_channel without the empty-input return.
validate_midi_channel_no_empty_check(input) ==
    LET r == ParseU8(Trim(input))
    IN  IF r.ok /\ r.val <= MaxChannel THEN <<r.val, None>>
        ELSE IF r.ok
        THEN <<0, Some(ChannelRangePrefix \o ToString(r.val)
                       \o ChannelRangeSuffix)>>
        ELSE <<0, Some(ChannelInvalidPrefix \o Trim(input)
                       \o ChannelInvalidSuffix)>>

\* Variant of validate_midi_channel that tests against the value bound.
validate_midi_channel_value_bound(input) ==
    IF Trim(input) = <<>> THEN <<0, None>>
    ELSE LET r == ParseU8(Trim(input))
         IN  IF r.ok /\ r.val <= MaxValue THEN <<r.val, None>>
             ELSE IF r.ok
             THEN <<0, Some(ChannelRangePrefix \o ToString(r.val)
                            \o ChannelRangeSuffix)>>
             ELSE <<0, Some(ChannelInvalidPrefix \o Trim(input)
                            \o ChannelInvalidSuffix)>>

validate_midi_channel(input) ==
    IF Trim(input) = <<>> THEN <<0, None>>
    ELSE LET r == ParseU8(Trim(input))
         IN  IF r.ok /\ r.val <= MaxChannel THEN <<r.val, None>>
             ELSE IF r.ok
             THEN <<0, Some(ChannelRangePrefix \o ToString(r.val)
                            \o ChannelRangeSuffix)>>
             ELSE <<0, Some(ChannelInvalidPrefix \o Trim(input)
                            \o ChannelInvalidSuffix)>>

Ok(x) == <<"Ok", x>>

Err(e) == <<"Err", e>>

\* u8 addition; the sum wraps at 8 bits (an overflow panics in a debug build
\* and wraps in a release build; the range checks keep the sum below 0xC0).
AddU8(a, b) == (a + b) % (U8Max + 1)

\* Variant of the encoder whose status byte leaves the channel out.
create_midi_cc_122_message_status_only(value, channel) ==
    IF value > MaxValue
    THEN Err(ValueErrPrefix \o ToString(value) \o ValueErrSuffix)
    ELSE IF channel > MaxChannel
    THEN Err(ChannelErrPrefix \o ToString(channel) \o ChannelErrSuffix)
    ELSE Ok(<<StatusBase, Controller, value>>)

\* Variant of the encoder without the channel check.
create_midi_cc_122_message_no_channel_check(value, channel) ==
    IF value > MaxValue
    THEN Err(ValueErrPrefix \o ToString(value) \o ValueErrSuffix)
    ELSE Ok(<<AddU8(StatusBase, channel), Controller, value>>)

\* Variant of the encoder that checks the channel before the value.
create_midi_cc_122_message_channel_first(value, channel) ==
    IF channel > MaxChannel
    THEN Err(ChannelErrPrefix \o ToString(channel) \o ChannelErrSuffix)
    ELSE IF value > MaxValue
    THEN Err(ValueErrPrefix \o ToString(value) \o ValueErrSuffix)
    ELSE Ok(<<AddU8(StatusBase, channel), Controller, value>>)

\* Variant of the encoder without the value check.
create_midi_cc_122_message_no_value_check(value, channel) ==
    IF channel > MaxChannel
    THEN Err(ChannelErrPrefix \o ToString(channel) \o ChannelErrSuffix)
    ELSE Ok(<<AddU8(StatusBase, channel), Controller, value>>)

create_midi_cc_122_message(value, channel) ==
    IF value > MaxValue
    THEN Err(ValueErrPrefix \o ToString(value) \o ValueErrSuffix)
    ELSE IF channel > MaxChannel
    THEN Err(ChannelErrPrefix \o ToString(channel) \o ChannelErrSuffix)
    ELSE Ok(<<AddU8(StatusBase, channel), Controller, value>>)

\* Variant of the interpreter that takes every non-zero value as On.
interpret_local_control_value_nonzero_on(value) ==
    IF value = 0 THEN "Local Control Off"
    ELSE "Local Control On"

interpret_local_control_value(value) ==
    IF value = 0 THEN "Local Control Off"
    ELSE IF value = MaxValue THEN "Local Control On"
    ELSE "Custom Local Control Value"

(***************************************************************************)
(* State: one text handed to the validators, one pair of u8 handed to the  *)
(* encoder, and what each call returned (<<>> while it has not returned).  *)
(***************************************************************************)
VARIABLES input, value, channel, vres, cres, mres

\* The channel text of a run that reads two texts (input is its value text)
\* and the label the interpreter returned ("" while it has not returned).
VARIABLES chinput, label

\* The command-line program (src/src/main.rs): where main is, the number of
\* output ports found, the open connection (<<>> or <<port index>>), the
\* messages sent on it, the exit status (<<>> while running), and the lines
\* written to the error stream and to the standard output.
VARIABLES pc, nports, conn, sent, exitCode, stderr, stdout

cli == <<pc, nports, conn, sent, exitCode, stderr, stdout>>

\* Concurrent callers (test_concurrent_validation_safety): per thread, the
\* index of the input it is at, its position in the loop body, the locals
\* of the call it is in (the trimmed text, the parse result) and what its
\* calls on this input returned.
VARIABLES tidx, tpc, ttrim, tparsed, tv, tc, tm

thr == <<tidx, tpc, ttrim, tparsed, tv, tc, tm>>

\* What the harnesses of the validators and of the encoder leave alone.
ext == <<chinput, label, cli, thr>>

vars == <<input, value, channel, vres, cres, mres, ext>>

NotCalled == <<>>

\* main has not been entered.
CliIdle ==
    /\ pc = "idle"
    /\ nports = 0
    /\ conn = <<>>
    /\ sent = <<>>
    /\ exitCode = <<>>
    /\ stderr = <<>>
    /\ stdout = <<>>

\* No thread has been spawned.
ThrIdle ==
    /\ tidx = <<>>
    /\ tpc = <<>>
    /\ ttrim = <<>>
    /\ tparsed = <<>>
    /\ tv = <<>>
    /\ tc = <<>>
    /\ tm = <<>>

ExtIdle ==
    /\ chinput = <<>>
    /\ label = ""
    /\ CliIdle
    /\ ThrIdle

\* The validators' harness: any text up to MaxLen characters.
Init ==
    /\ input \in Texts
    /\ value = 0
    /\ channel = 0
    /\ vres = NotCalled
    /\ cres = NotCalled
    /\ mres = NotCalled
    /\ ExtIdle

\* The encoder's harness: any pair of u8.
InitEnc ==
    /\ input = <<>>
    /\ value \in U8
    /\ channel \in U8
    /\ vres = NotCalled
    /\ cres = NotCalled
    /\ mres = NotCalled
    /\ ExtIdle

ValidateValue ==
    /\ vres = NotCalled
    /\ vres' = validate_midi_value(input)
    /\ UNCHANGED <<input, value, channel, cres, mres, ext>>

ValidateChannel ==
    /\ cres = NotCalled
    /\ cres' = validate_midi_channel(input)
    /\ UNCHANGED <<input, value, channel, vres, mres, ext>>

CreateMessage ==
    /\ mres = NotCalled
    /\ mres' = create_midi_cc_122_message(value, channel)
    /\ UNCHANGED <<input, value, channel, vres, cres, ext>>

Next == ValidateValue \/ ValidateChannel

NextEnc == CreateMessage

Spec == Init /\ [][Next]_vars

SpecEnc == InitEnc /\ [][NextEnc]_vars

(***************************************************************************)
(* The interpreter's harness: any u8.                                      *)
(***************************************************************************)
InitInterp ==
    /\ input = <<>>
    /\ value \in U8
    /\ channel = 0
    /\ vres = NotCalled
    /\ cres = NotCalled
    /\ mres = NotCalled
    /\ ExtIdle

Interpret ==
    /\ label = ""
    /\ label' = interpret_local_control_value(value)
    /\ UNCHANGED <<input, value, channel, vres, cres, mres, chinput, cli, thr>>

NextInterp == Interpret

SpecInterp == InitInterp /\ [][NextInterp]_vars

(***************************************************************************)
(* Validation to message creation: a value text and a channel text are     *)
(* validated and the two resolved numbers are handed to the encoder.       *)
(***************************************************************************)
\* The characters of the texts of a two-text run: three digits (they spell
\* "200", "3", "20", "23", ...), a letter and a space.
FlowAlphabet == {"0", "2", "3", "x", " "}

FlowTexts == UNION {[1..k -> FlowAlphabet] : k \in 0..MaxLen}

InitFlow ==
    /\ input \in FlowTexts
    /\ chinput \in FlowTexts
    /\ value = 0
    /\ channel = 0
    /\ vres = NotCalled
    /\ cres = NotCalled
    /\ mres = NotCalled
    /\ label = ""
    /\ CliIdle
    /\ ThrIdle

ValidateChannelInput ==
    /\ vres # NotCalled
    /\ cres = NotCalled
    /\ cres' = validate_midi_channel(chinput)
    /\ UNCHANGED <<input, value, channel, vres, mres, ext>>

\* create_midi_cc_122_message(value, channel) with the two resolved numbers.
EncodeValidated ==
    /\ vres # NotCalled
    /\ cres # NotCalled
    /\ mres = NotCalled
    /\ value' = vres[1]
    /\ channel' = cres[1]
    /\ mres' = create_midi_cc_122_message(vres[1], cres[1])
    /\ UNCHANGED <<input, vres, cres, ext>>

NextFlow == ValidateValue \/ ValidateChannelInput \/ EncodeValidated

SpecFlow == InitFlow /\ [][NextFlow]_vars

(***************************************************************************)
(* main (src/src/main.rs).  Each action runs main from one call that waits *)
(* for the outside (the MIDI driver, the terminal) to the next; what the   *)
(* outside answers is chosen with \E.                                      *)
(***************************************************************************)
\* Most output ports the driver reports.
MaxPorts == 2

\* The characters of the port selection line.
PortAlphabet == {"0", "1", "2", "3", "+", "x", " "}

PortTexts == UNION {[1..k -> PortAlphabet] : k \in 0..MaxLen}

\* str::parse::<usize>: as ParseU8, with the range of usize, which no text
\* of PortTexts exceeds.
RECURSIVE ParseDigitsUsize(_, _)
ParseDigitsUsize(digits, result) ==
    IF digits = <<>> THEN ParseOk(result)
    ELSE IF ~IsDigit(Head(digits)) THEN ParseErr("InvalidDigit")
    ELSE ParseDigitsUsize(Tail(digits),
                          result * 10 + DigitValue(Head(digits)))

ParseUsize(src) ==
    IF src = <<>> THEN ParseErr("Empty")
    ELSE IF src = <<"+">> \/ src = <<"-">> THEN ParseErr("InvalidDigit")
    ELSE IF Head(src) = "+" THEN ParseDigitsUsize(Tail(src), 0)
    ELSE ParseDigitsUsize(src, 0)

\* The prefixes main puts before an error on the error stream.
ConnectionFailed == "Failed to establish MIDI connection: "

InputFailed == "Failed to get user input: "

SendFailed == "Failed to send MIDI message: "

PromptPort == "Select a port by number: "

PromptValue == "Enter MIDI value (0-127, default 0): "

PromptChannel == "Enter MIDI channel (0-15, default 0): "

\* The text of an encoder error, by its first words.
ErrText(e) ==
    IF SubSeq(e, 1, Len(ValueErrPrefix)) = ValueErrPrefix
    THEN "Invalid MIDI value"
    ELSE "Invalid MIDI channel"

\* Variant of Fail in which main reports the error and returns Ok(()).
FailThenOk(prefix, err) ==
    /\ pc' = "exit"
    /\ exitCode' = <<0>>
    /\ stderr' = stderr \o <<<<prefix, err>>>>

\* main's map_err(|e| { eprintln!(prefix, e); e })?: the error is written
\* to the error stream and returned from main, and the runtime writes it
\* again and exits with status 1.
Fail(prefix, err) ==
    /\ pc' = "exit"
    /\ exitCode' = <<1>>
    /\ stderr' = stderr \o <<<<prefix, err>>, <<"Error: ", err>>>>

\* Variant of PortExists that takes the number of ports as an index too.
PortExistsInclusive(index, n) == index <= n

\* The negation of port_index >= out_ports.len().
PortExists(index, n) == index < n

InitMain ==
    /\ input = <<>>
    /\ value = 0
    /\ channel = 0
    /\ vres = NotCalled
    /\ cres = NotCalled
    /\ mres = NotCalled
    /\ chinput = <<>>
    /\ label = ""
    /\ pc = "start"
    /\ nports = 0
    /\ conn = <<>>
    /\ sent = <<>>
    /\ exitCode = <<>>
    /\ stderr = <<>>
    /\ stdout = <<>>
    /\ ThrIdle

\* MidiOutput::new("MIDI CC Sender")?
CreateOutput ==
    /\ pc = "start"
    /\ \E ok \in BOOLEAN :
          IF ok
          THEN /\ pc' = "ports"
               /\ UNCHANGED <<exitCode, stderr>>
          ELSE Fail(ConnectionFailed, "MIDI support could not be initialized")
    /\ stdout' = stdout \o <<"Step 1: Select MIDI Output Port">>
    /\ UNCHANGED thr
    /\ UNCHANGED <<input, value, channel, vres, cres, mres, chinput, label,
                   nports, conn, sent>>

\* midi_out.ports(), the numbered list and the selection prompt.
ListPorts ==
    /\ pc = "ports"
    /\ \E n \in 0..MaxPorts, flushed \in BOOLEAN :
          /\ nports' = n
          /\ IF n = 0
             THEN /\ Fail(ConnectionFailed, "No MIDI output ports available.")
                  /\ UNCHANGED stdout
             ELSE /\ stdout' = stdout \o <<"Available MIDI ports:", PromptPort>>
                  /\ IF flushed
                     THEN /\ pc' = "select"
                          /\ UNCHANGED <<exitCode, stderr>>
                     ELSE Fail(ConnectionFailed, "io error")
    /\ UNCHANGED thr
    /\ UNCHANGED <<input, value, channel, vres, cres, mres, chinput, label,
                   conn, sent>>

\* read_line (input holds the line read last), the parse of the port index,
\* its range check and connect.
SelectPort ==
    /\ pc = "select"
    /\ \E read \in BOOLEAN, line \in PortTexts, connected \in BOOLEAN :
          LET r == ParseUsize(Trim(line))
          IN  IF ~read
              THEN /\ Fail(ConnectionFailed, "io error")
                   /\ UNCHANGED <<input, conn, stdout>>
              ELSE /\ input' = line
                   /\ IF ~r.ok
                      THEN /\ Fail(ConnectionFailed,
                                   "Invalid input: Please enter a valid number")
                           /\ UNCHANGED <<conn, stdout>>
                      ELSE IF ~PortExists(r.val, nports)
                      THEN /\ Fail(ConnectionFailed, "Invalid port selection")
                           /\ UNCHANGED <<conn, stdout>>
                      ELSE IF ~connected
                      THEN /\ Fail(ConnectionFailed,
                                   "Failed to connect to MIDI port")
                           /\ UNCHANGED <<conn, stdout>>
                      ELSE /\ conn' = <<r.val>>
                           /\ stdout' = stdout \o
                                 <<"Connected to MIDI port",
                                   "Step 2: Configure MIDI Parameters">>
                           /\ pc' = "value"
                           /\ UNCHANGED <<exitCode, stderr>>
    /\ UNCHANGED thr
    /\ UNCHANGED <<value, channel, vres, cres, mres, chinput, label, nports,
                   sent>>

\* get_user_input, first half: the value prompt, read_line,
\* validate_midi_value and the warning.
ReadValue ==
    /\ pc = "value"
    /\ \E flushed \in BOOLEAN, read \in BOOLEAN, line \in FlowTexts :
          IF ~flushed \/ ~read
          THEN /\ Fail(InputFailed, "io error")
               /\ stdout' = stdout \o <<PromptValue>>
               /\ UNCHANGED <<input, value>>
          ELSE /\ input' = line
               /\ value' = validate_midi_value(line)[1]
               /\ stdout' = stdout \o <<PromptValue>> \o
                     (IF validate_midi_value(line)[2] = None
                      THEN <<>> ELSE <<"Warning">>)
               /\ pc' = "channel"
               /\ UNCHANGED <<exitCode, stderr>>
    /\ UNCHANGED thr
    /\ UNCHANGED <<channel, vres, cres, mres, chinput, label, nports, conn,
                   sent>>

\* get_user_input, second half: the channel prompt, read_line into a new
\* String, validate_midi_channel, the warning, the interpretation, and the
\* return of (value, channel), which drops the text.
ReadChannel ==
    /\ pc = "channel"
    /\ \E flushed \in BOOLEAN, read \in BOOLEAN, line \in FlowTexts :
          IF ~flushed \/ ~read
          THEN /\ Fail(InputFailed, "io error")
               /\ stdout' = stdout \o <<PromptChannel>>
               /\ UNCHANGED <<channel, label>>
          ELSE /\ channel' = validate_midi_channel(line)[1]
               /\ label' = interpret_local_control_value(value)
               /\ stdout' = stdout \o <<PromptChannel>> \o
                     (IF validate_midi_channel(line)[2] = None
                      THEN <<>> ELSE <<"Warning">>) \o
                     <<"Using MIDI value", "Step 3: Send MIDI Message">>
               /\ pc' = "send"
               /\ UNCHANGED <<exitCode, stderr>>
    /\ input' = <<>>
    /\ UNCHANGED thr
    /\ UNCHANGED <<value, vres, cres, mres, chinput, nports, conn, sent>>

\* send_midi_cc_122 and the end of main.
Send ==
    /\ pc = "send"
    /\ mres' = create_midi_cc_122_message(value, channel)
    /\ \E delivered \in BOOLEAN :
          IF mres'[1] = "Err"
          THEN /\ Fail(SendFailed, ErrText(mres'[2]))
               /\ UNCHANGED <<sent, stdout>>
          ELSE IF ~delivered
          THEN /\ Fail(SendFailed, "Failed to send MIDI message: send error")
               /\ UNCHANGED <<sent, stdout>>
          ELSE /\ sent' = Append(sent, mres'[2])
               /\ stdout' = stdout \o <<"Successfully sent MIDI CC #122",
                                        "Operation completed successfully!">>
               /\ pc' = "exit"
               /\ exitCode' = <<0>>
               /\ UNCHANGED stderr
    /\ UNCHANGED thr
    /\ UNCHANGED <<input, value, channel, vres, cres, chinput, label, nports,
                   conn>>

NextMain ==
    \/ CreateOutput
    \/ ListPorts
    \/ SelectPort
    \/ ReadValue
    \/ ReadChannel
    \/ Send

\* Every call main waits in returns: the driver answers and the terminal
\* delivers a line, an end of input or an error.
SpecMain == InitMain /\ [][NextMain]_vars /\ WF_vars(NextMain)

(***************************************************************************)
(* Concurrent callers.  Every thread walks the same list of inputs and, on *)
(* each, calls validate_midi_value, validate_midi_channel and the encoder. *)
(* A call is run one statement at a time, so that the calls of different   *)
(* threads interleave; its locals are the thread's own.                    *)
(***************************************************************************)
\* Threads spawned.
NumThreads == 2

Threads == 1..NumThreads

\* "0", "64", "127", "128", "abc", "", "   ", "255", "-1", "12.5"
ConcInputs ==
    << <<"0">>, <<"6", "4">>, <<"1", "2", "7">>, <<"1", "2", "8">>,
       <<"a", "b", "c">>, <<>>, <<" ", " ", " ">>, <<"2", "5", "5">>,
       <<"-", "1">>, <<"1", "2", ".", "5">> >>

\* The match of validate_midi_value on the parse result r of the text t.
ValueMatch(r, t) ==
    IF r.ok /\ r.val <= MaxValue THEN <<r.val, None>>
    ELSE IF r.ok
    THEN <<0, Some(ValueRangePrefix \o ToString(r.val) \o ValueRangeSuffix)>>
    ELSE <<0, Some(ValueInvalidPrefix \o t \o ValueInvalidSuffix)>>

\* The match of validate_midi_channel on the parse result r of the text t.
ChannelMatch(r, t) ==
    IF r.ok /\ r.val <= MaxChannel THEN <<r.val, None>>
    ELSE IF r.ok
    THEN <<0, Some(ChannelRangePrefix \o ToString(r.val)
                   \o ChannelRangeSuffix)>>
    ELSE <<0, Some(ChannelInvalidPrefix \o t \o ChannelInvalidSuffix)>>

\* Variant of Frame in which the locals are one static buffer.
SharedFrame(t) == 1

\* Where the locals of thread t's call live: its own stack frame.
Frame(t) == t

InitConc ==
    /\ input = <<>>
    /\ value = 0
    /\ channel = 0
    /\ vres = NotCalled
    /\ cres = NotCalled
    /\ mres = NotCalled
    /\ chinput = <<>>
    /\ label = ""
    /\ CliIdle
    /\ tidx = [t \in Threads |-> 1]
    /\ tpc = [t \in Threads |-> "value_trim"]
    /\ ttrim = [t \in Threads |-> <<>>]
    /\ tparsed = [t \in Threads |-> ParseErr("Empty")]
    /\ tv = [t \in Threads |-> NotCalled]
    /\ tc = [t \in Threads |-> NotCalled]
    /\ tm = [t \in Threads |-> NotCalled]

Rest == <<input, value, channel, vres, cres, mres, chinput, label, cli>>

\* validate_midi_value: input.trim() and the empty-input return.
ValueTrim(t) ==
    /\ tpc[t] = "value_trim"
    /\ IF Trim(ConcInputs[tidx[t]]) = <<>>
       THEN /\ tv' = [tv EXCEPT ![t] = <<0, None>>]
            /\ tpc' = [tpc EXCEPT ![t] = "channel_trim"]
            /\ UNCHANGED ttrim
       ELSE /\ ttrim' = [ttrim EXCEPT ![Frame(t)] = Trim(ConcInputs[tidx[t]])]
            /\ tpc' = [tpc EXCEPT ![t] = "value_parse"]
            /\ UNCHANGED tv
    /\ UNCHANGED <<tidx, tparsed, tc, tm, Rest>>

\* validate_midi_value: .parse::<u8>()
ValueParse(t) ==
    /\ tpc[t] = "value_parse"
    /\ tparsed' = [tparsed EXCEPT ![Frame(t)] = ParseU8(ttrim[Frame(t)])]
    /\ tpc' = [tpc EXCEPT ![t] = "value_match"]
    /\ UNCHANGED <<tidx, ttrim, tv, tc, tm, Rest>>

\* validate_midi_value: the match and the return.
ValueReturn(t) ==
    /\ tpc[t] = "value_match"
    /\ tv' = [tv EXCEPT ![t] = ValueMatch(tparsed[Frame(t)], ttrim[Frame(t)])]
    /\ tpc' = [tpc EXCEPT ![t] = "channel_trim"]
    /\ UNCHANGED <<tidx, ttrim, tparsed, tc, tm, Rest>>

\* validate_midi_channel: input.trim() and the empty-input return.
ChannelTrim(t) ==
    /\ tpc[t] = "channel_trim"
    /\ IF Trim(ConcInputs[tidx[t]]) = <<>>
       THEN /\ tc' = [tc EXCEPT ![t] = <<0, None>>]
            /\ tpc' = [tpc EXCEPT ![t] = "create"]
            /\ UNCHANGED ttrim
       ELSE /\ ttrim' = [ttrim EXCEPT ![Frame(t)] = Trim(ConcInputs[tidx[t]])]
            /\ tpc' = [tpc EXCEPT ![t] = "channel_parse"]
            /\ UNCHANGED tc
    /\ UNCHANGED <<tidx, tparsed, tv, tm, Rest>>

\* validate_midi_channel: .parse::<u8>()
ChannelParse(t) ==
    /\ tpc[t] = "channel_parse"
    /\ tparsed' = [tparsed EXCEPT ![Frame(t)] = ParseU8(ttrim[Frame(t)])]
    /\ tpc' = [tpc EXCEPT ![t] = "channel_match"]
    /\ UNCHANGED <<tidx, ttrim, tv, tc, tm, Rest>>

\* validate_midi_channel: the match and the return.
ChannelReturn(t) ==
    /\ tpc[t] = "channel_match"
    /\ tc' = [tc EXCEPT ![t] =
                 ChannelMatch(tparsed[Frame(t)], ttrim[Frame(t)])]
    /\ tpc' = [tpc EXCEPT ![t] = "create"]
    /\ UNCHANGED <<tidx, ttrim, tparsed, tv, tm, Rest>>

\* The sanity checks and create_midi_cc_122_message(value, channel).
ThreadCreate(t) ==
    /\ tpc[t] = "create"
    /\ tm' = [tm EXCEPT ![t] =
                 IF tv[t][1] <= 127 /\ tc[t][1] <= 15
                 THEN create_midi_cc_122_message(tv[t][1], tc[t][1])
                 ELSE NotCalled]
    /\ tpc' = [tpc EXCEPT ![t] = "next"]
    /\ UNCHANGED <<tidx, ttrim, tparsed, tv, tc, Rest>>

\* The next input of the list, or the end of the thread.
ThreadNext(t) ==
    /\ tpc[t] = "next"
    /\ tidx[t] < Len(ConcInputs)
    /\ tidx' = [tidx EXCEPT ![t] = tidx[t] + 1]
    /\ tpc' = [tpc EXCEPT ![t] = "value_trim"]
    /\ tv' = [tv EXCEPT ![t] = NotCalled]
    /\ tc' = [tc EXCEPT ![t] = NotCalled]
    /\ tm' = [tm EXCEPT ![t] = NotCalled]
    /\ UNCHANGED <<ttrim, tparsed, Rest>>

NextConc ==
    \E t \in Threads :
        \/ ValueTrim(t)
        \/ ValueParse(t)
        \/ ValueReturn(t)
        \/ ChannelTrim(t)
        \/ ChannelParse(t)
        \/ ChannelReturn(t)
        \/ ThreadCreate(t)
        \/ ThreadNext(t)

SpecConc == InitConc /\ [][NextConc]_vars

(***************************************************************************)
(* Vocabulary of the properties, defined without the operators above.      *)
(***************************************************************************)
\* needle occurs in hay as a contiguous run of characters.
Contains(hay, needle) ==
    \E i \in 1..(Len(hay) + 1) :
        /\ i + Len(needle) - 1 <= Len(hay)
        /\ SubSeq(hay, i, i + Len(needle) - 1) = needle

AllDigits(t) == \A i \in 1..Len(t) : t[i] \in DigitSet

AllWhitespace(t) == \A i \in 1..Len(t) : t[i] \in WhitespaceChars

\* The number a digit string denotes, as a natural number of any size.
RECURSIVE NumberOf(_)
NumberOf(t) ==
    IF t = <<>> THEN 0
    ELSE 10 * NumberOf(SubSeq(t, 1, Len(t) - 1)) + DigitValue(t[Len(t)])

\* t is the decimal text (digits only) of a number that fits in 8 bits.
IsDecimalText(t) == t # <<>> /\ AllDigits(t) /\ NumberOf(t) <= U8Max

\* t is a sign character followed by at least one digit and only digits.
IsSigned(t, sign) == Len(t) >= 2 /\ t[1] = sign /\ AllDigits(Tail(t))

\* The decimal text of a number below 1000, without leading zeros.
DecimalText(n) ==
    IF n < 10 THEN <<Digits[n + 1]>>
    ELSE IF n < 100 THEN <<Digits[(n \div 10) + 1], Digits[(n % 10) + 1]>>
    ELSE <<Digits[(n \div 100) + 1], Digits[((n \div 10) % 10) + 1],
           Digits[(n % 10) + 1]>>

\* raw without its leading and trailing whitespace.
Stripped(raw) ==
    LET keep == {i \in 1..Len(raw) : raw[i] \notin WhitespaceChars}
    IN  IF keep = {} THEN <<>>
        ELSE SubSeq(raw, CHOOSE i \in keep : \A j \in keep : i <= j,
                         CHOOSE i \in keep : \A j \in keep : i >= j)

Quoted(t) == <<"'">> \o t \o <<"'">>

TxtOutOfRange == <<"o","u","t"," ","o","f"," ","r","a","n","g","e">>

TxtInvalidValue == <<"I","n","v","a","l","i","d"," ","v","a","l","u","e">>

TxtInvalidChannel == <<"I","n","v","a","l","i","d"," ","c","h","a","n","n","e","l">>

TxtValueBound == <<"0","-","1","2","7">>

TxtChannelBound == <<"0","-","1","5">>

TxtInvalidMidiValue == <<"I","n","v","a","l","i","d"," ","M","I","D","I"," ","v","a","l","u","e">>

TxtInvalidMidiChannel == <<"I","n","v","a","l","i","d"," ","M","I","D","I"," ","c","h","a","n","n","e","l">>

ValueCalled == vres # NotCalled

ChannelCalled == cres # NotCalled

MessageCalled == mres # NotCalled

\* res is (0, Some(diagnostic)) whose text says kind and quotes t, and does
\* not say "out of range".
IsInvalid(res, kind, t) ==
    /\ res[1] = 0
    /\ Len(res[2]) = 1
    /\ Contains(res[2][1], kind)
    /\ Contains(res[2][1], Quoted(t))
    /\ ~Contains(res[2][1], TxtOutOfRange)

\* res is (0, Some(diagnostic)) whose text says "out of range", the number n
\* and the bound, and does not say "Invalid".
IsOutOfRange(res, n, bound) ==
    /\ res[1] = 0
    /\ Len(res[2]) = 1
    /\ Contains(res[2][1], TxtOutOfRange)
    /\ Contains(res[2][1], DecimalText(n))
    /\ Contains(res[2][1], bound)
    /\ ~Contains(res[2][1], TxtInvalidValue)
    /\ ~Contains(res[2][1], TxtInvalidChannel)

(***************************************************************************)
(* The encoder.                                                            *)
(***************************************************************************)
\* C1: for every value in [0,127] and channel in [0,15] the encoder succeeds
\* and returns exactly the 3 bytes [0xB0 + channel, 122, value]; the status
\* byte's high nibble is 0xB and its low nibble is the channel.
C1_EncodeInRange ==
    (MessageCalled /\ value <= 127 /\ channel <= 15) =>
        /\ mres[1] = "Ok"
        /\ Len(mres[2]) = 3
        /\ mres[2] = <<176 + channel, 122, value>>
        /\ mres[2][1] \div 16 = 11
        /\ mres[2][1] % 16 = channel

C1_Witness ==
    /\ MessageCalled
    /\ value = 64
    /\ channel = 5
    /\ mres = <<"Ok", <<181, 122, 64>>>>

\* C2: over all pairs of 8-bit inputs the encoder returns an error if and
\* only if value > 127 or channel > 15.
C2_ErrorIffOutOfRange ==
    MessageCalled =>
        /\ mres[1] \in {"Ok", "Err"}
        /\ (mres[1] = "Err") <=> (value > 127 \/ channel > 15)

C2_Witness ==
    /\ MessageCalled
    /\ value = 0
    /\ channel = 16
    /\ mres[1] = "Err"

\* C3: the value check comes first: value > 127 gives the value-range error
\* (with the value and "0-127") whatever the channel; the channel-range
\* error (with the channel and "0-15") is given exactly when value <= 127
\* and channel > 15.
C3_ValueCheckedFirst ==
    MessageCalled =>
        /\ (value > 127) =>
              /\ mres[1] = "Err"
              /\ Contains(mres[2], TxtInvalidMidiValue)
              /\ Contains(mres[2], DecimalText(value))
              /\ Contains(mres[2], TxtValueBound)
              /\ ~Contains(mres[2], TxtInvalidMidiChannel)
        /\ (value <= 127 /\ channel > 15) =>
              /\ mres[1] = "Err"
              /\ Contains(mres[2], TxtInvalidMidiChannel)
              /\ Contains(mres[2], DecimalText(channel))
              /\ Contains(mres[2], TxtChannelBound)
              /\ ~Contains(mres[2], TxtInvalidMidiValue)

C3_Witness ==
    /\ MessageCalled
    /\ value = 200
    /\ channel = 20
    /\ mres[1] = "Err"
    /\ Contains(mres[2], TxtInvalidMidiValue)

(***************************************************************************)
(* The validators.                                                         *)
(***************************************************************************)
\* C4: for every integer v in [0,127] given as decimal text,
\* validate_midi_value returns (v, no diagnostic).
C4_ValueInRange ==
    (ValueCalled /\ IsDecimalText(input) /\ NumberOf(input) <= 127) =>
        vres = <<NumberOf(input), None>>

C4_Witness ==
    /\ ValueCalled
    /\ input = <<"1", "2", "7">>
    /\ vres = <<127, None>>

\* C5: for every integer v in [128,255] given as decimal text,
\* validate_midi_value returns 0 with a diagnostic that says "out of range",
\* the number as parsed and "0-127", and does not say "Invalid value".
C5_ValueOutOfRange ==
    (ValueCalled /\ IsDecimalText(input) /\ NumberOf(input) >= 128) =>
        IsOutOfRange(vres, NumberOf(input), TxtValueBound)

C5_Witness ==
    /\ ValueCalled
    /\ input = <<"2", "0", "0">>
    /\ vres[1] = 0
    /\ Len(vres[2]) = 1
    /\ Contains(vres[2][1], <<"2", "0", "0">>)

IsPlusDecimalText(t) == IsSigned(t, "+") /\ IsDecimalText(Tail(t))

PlusResult(res, t, bound, boundTxt, invalidTxt) ==
    LET n == NumberOf(Tail(t))
    IN  IF n <= bound THEN res = <<n, None>>
        ELSE IF n <= U8Max THEN IsOutOfRange(res, n, boundTxt)
        ELSE IsInvalid(res, invalidTxt, t)

C8_EmptyIsSilentDefault ==
    AllWhitespace(input) =>
        /\ ValueCalled => vres = <<0, None>>
        /\ ChannelCalled => cres = <<0, None>>

C8_Witness ==
    /\ ValueCalled
    /\ ChannelCalled
    /\ input = <<" ", "\t">>
    /\ vres = <<0, None>>
    /\ cres = <<0, None>>

\* The three-way classification by the trimmed text t with bound 15, for
\* the texts named decimal: in range, out of range.
ChannelDecimalCases(t) ==
    /\ (IsDecimalText(t) /\ NumberOf(t) <= 15) =>
           cres = <<NumberOf(t), None>>
    /\ (IsDecimalText(t) /\ NumberOf(t) >= 16) =>
           IsOutOfRange(cres, NumberOf(t), TxtChannelBound)

C10_TrimFirst ==
    /\ \A i \in 1..(Len(input) + 1) : \A j \in (i - 1)..Len(input) :
          ( /\ AllWhitespace(SubSeq(input, 1, i - 1))
            /\ AllWhitespace(SubSeq(input, j + 1, Len(input))) )
          => /\ ValueCalled =>
                    vres = validate_midi_value(SubSeq(input, i, j))
             /\ ChannelCalled =>
                    cres = validate_midi_channel(SubSeq(input, i, j))
    /\ \A res \in {vres, cres} :
          ( /\ res # NotCalled
            /\ Len(res[2]) = 1
            /\ Contains(res[2][1], <<"'">>) )
          => /\ Contains(res[2][1], Quoted(Stripped(input)))
             /\ Stripped(input) # input =>
                    ~Contains(res[2][1], Quoted(input))

C10_Witness ==
    /\ ValueCalled
    /\ ChannelCalled
    /\ input = <<" ", "x", "\n">>
    /\ IsInvalid(vres, TxtInvalidValue, <<"x">>)
    /\ IsInvalid(cres, TxtInvalidChannel, <<"x">>)

\* C11: for every input text the number validate_midi_value resolves is in
\* [0,127] and the number validate_midi_channel resolves is in [0,15].
C11_ResolvedInRange ==
    /\ ValueCalled => (vres[1] \in 0..127)
    /\ ChannelCalled => (cres[1] \in 0..15)

C11_Witness ==
    /\ ValueCalled
    /\ ChannelCalled
    /\ input = <<"2", "5", "5">>
    /\ vres[1] = 0
    /\ cres[1] = 0

\* C12: every message the encoder returns has the most-significant bit set
\* in byte[0] and clear in byte[1] and byte[2]; 0xB0 + channel is at most
\* 0xBF and does not overflow 8 bits.
C12_WireFormat ==
    (MessageCalled /\ mres[1] = "Ok") =>
        /\ mres[2][1] >= 128
        /\ mres[2][2] < 128
        /\ mres[2][3] < 128
        /\ 176 + channel <= 191
        /\ mres[2][1] = 176 + channel

C12_Witness ==
    /\ MessageCalled
    /\ value = 127
    /\ channel = 15
    /\ mres = <<"Ok", <<191, 122, 127>>>>

(***************************************************************************)
(* The interpreter.                                                        *)
(***************************************************************************)
\* C13: the interpreter returns "Local Control Off" for 0, "Local Control
\* On" for 127 and "Custom Local Control Value" for every x in [1,126]; it
\* returns a label for every 8-bit input.
C13_Interpretation ==
    /\ label = "" => ENABLED Interpret
    /\ label # "" =>
        /\ value = 0 => label = "Local Control Off"
        /\ value = 127 => label = "Local Control On"
        /\ value \in 1..126 => label = "Custom Local Control Value"
        /\ label \in {"Local Control Off", "Local Control On",
                      "Custom Local Control Value"}

C13_Witness ==
    /\ value = 126
    /\ label = "Custom Local Control Value"

(***************************************************************************)
(* Validation to message creation.                                         *)
(***************************************************************************)
\* The number a text is taken for by a validator with the given bound:
\* the number its trimmed digits denote when that is within the bound, and
\* the default 0 otherwise.
Resolved(t, bound) ==
    IF IsDecimalText(Stripped(t)) /\ NumberOf(Stripped(t)) <= bound
    THEN NumberOf(Stripped(t))
    ELSE 0

\* C16: for every pair of raw texts, the numbers the two validators resolve
\* make the encoder succeed with [0xB0 + resolved channel, 122, resolved
\* value]; unusable input is sent as the default 0 ("200" and "3" give
\* [0xB3, 122, 0]; "" and "" give [0xB0, 122, 0]).
C16_CompositionSucceeds ==
    MessageCalled =>
        /\ mres[1] = "Ok"
        /\ mres[2] = <<176 + cres[1], 122, vres[1]>>
        /\ mres[2] = <<176 + Resolved(chinput, 15), 122, Resolved(input, 127)>>
        /\ (input = <<"2", "0", "0">> /\ chinput = <<"3">>) =>
               mres[2] = <<179, 122, 0>>
        /\ (input = <<>> /\ chinput = <<>>) => mres[2] = <<176, 122, 0>>

C16_Witness ==
    /\ MessageCalled
    /\ input = <<"2", "0", "0">>
    /\ chinput = <<"3">>
    /\ Len(vres[2]) = 1
    /\ cres = <<3, None>>
    /\ mres = <<"Ok", <<179, 122, 0>>>>

(***************************************************************************)
(* main.                                                                   *)
(***************************************************************************)
InSeq(x, seq) == \E i \in 1..Len(seq) : seq[i] = x

Exited == pc = "exit"

\* How a finished run went, by what it left behind: no connection was
\* opened; a connection was opened and main never reached its third step;
\* main reached its third step and sent nothing.
EndedWithoutConnection == Exited /\ conn = <<>>

EndedInInput ==
    Exited /\ conn # <<>> /\ ~InSeq("Step 3: Send MIDI Message", stdout)

EndedInSend ==
    Exited /\ InSeq("Step 3: Send MIDI Message", stdout) /\ sent = <<>>

\* The run ended with a non-zero status and an error written to the error
\* stream under the given prefix.
ExitedWithError(prefix) ==
    /\ exitCode # <<>>
    /\ exitCode[1] # 0
    /\ stderr # <<>>
    /\ stderr[1][1] = prefix
    /\ stderr[1][2] # ""

ExitedWithSuccess ==
    /\ exitCode = <<0>>
    /\ stderr = <<>>
    /\ InSeq("Successfully sent MIDI CC #122", stdout)
    /\ InSeq("Operation completed successfully!", stdout)

\* C14 as stated: a run ends with a non-zero status and the error on the
\* error stream if discovery, connection or encoding/transmission failed,
\* and with status zero and the confirmation in every other run.
C14_Original ==
    Exited =>
        /\ EndedWithoutConnection => ExitedWithError(ConnectionFailed)
        /\ EndedInSend => ExitedWithError(SendFailed)
        /\ ~(EndedWithoutConnection \/ EndedInSend) => ExitedWithSuccess

C14_ExitState ==
    Exited =>
        /\ EndedWithoutConnection => ExitedWithError(ConnectionFailed)
        /\ EndedInSend => ExitedWithError(SendFailed)
        /\ EndedInInput => ExitedWithError(InputFailed)
        /\ ~(EndedWithoutConnection \/ EndedInSend \/ EndedInInput) =>
               ExitedWithSuccess

\* C14 (amended): every run terminates; it ends with a non-zero status and
\* the error text on the error stream if endpoint discovery, connection
\* establishment, reading the value or the channel from the user, or
\* message encoding/transmission fails, and with status zero and a success
\* confirmation in every other run.
C14_ExitBehaviour == [](C14_ExitState) /\ <>Exited

C14_Witness ==
    /\ Exited
    /\ EndedInSend
    /\ exitCode = <<1>>
    /\ stderr[1] = <<SendFailed, "Failed to send MIDI message: send error">>

\* Every occurrence of a in seq is before every occurrence of b, and b does
\* not occur without a.
Before(a, b, seq) ==
    /\ InSeq(b, seq) => InSeq(a, seq)
    /\ \A i, j \in 1..Len(seq) : (seq[i] = a /\ seq[j] = b) => i < j

AtMostOnce(x, seq) ==
    \A i, j \in 1..Len(seq) : (seq[i] = x /\ seq[j] = x) => i = j

\* The text names one of n ports: digits, or '+' and digits, denoting a
\* number below n.
NamesPort(t, n) ==
    \/ IsDecimalText(t) /\ NumberOf(t) < n
    \/ IsPlusDecimalText(t) /\ NumberOf(Tail(t)) < n

\* C17: in every run the steps come in the order port selection, value
\* prompt, channel prompt, encode, transmit; bytes are sent at most once,
\* only on an open connection after both inputs were validated, and only
\* the 3 bytes a successful create_midi_cc_122_message returned; with no
\* port, a selection that is no number or one that names no port, the run
\* fails before the value or channel prompt and sends nothing.
C17_StepOrder ==
    /\ Before(PromptPort, PromptValue, stdout)
    /\ Before(PromptValue, PromptChannel, stdout)
    /\ Before(PromptChannel, "Using MIDI value", stdout)
    /\ Before("Using MIDI value", "Successfully sent MIDI CC #122", stdout)
    /\ \A x \in {PromptPort, PromptValue, PromptChannel} :
           AtMostOnce(x, stdout)
    /\ mres # NotCalled => InSeq("Using MIDI value", stdout)
    /\ Len(sent) <= 1
    /\ sent # <<>> =>
           /\ conn # <<>>
           /\ InSeq("Using MIDI value", stdout)
           /\ value \in 0..127
           /\ channel \in 0..15
           /\ mres = <<"Ok", sent[1]>>
           /\ sent[1] = <<176 + channel, 122, value>>
    /\ InSeq("Successfully sent MIDI CC #122", stdout) <=> sent # <<>>
    /\ InSeq(PromptValue, stdout) => conn # <<>>
    /\ conn # <<>> => (nports >= 1 /\ conn[1] < nports)
    /\ pc = "value" => NamesPort(Stripped(input), nports)
    /\ (pc \in {"start", "ports", "select"} \/ EndedWithoutConnection) =>
           /\ ~InSeq(PromptValue, stdout)
           /\ ~InSeq(PromptChannel, stdout)
           /\ sent = <<>>
    /\ (Exited /\ InSeq(PromptPort, stdout) /\ ~InSeq(PromptValue, stdout)) =>
           /\ exitCode = <<1>>
           /\ sent = <<>>
    /\ (Exited /\ nports = 0) =>
           /\ exitCode = <<1>>
           /\ ~InSeq(PromptValue, stdout)
           /\ sent = <<>>

C17_Witness ==
    /\ Exited
    /\ exitCode = <<0>>
    /\ conn = <<1>>
    /\ value = 0
    /\ channel = 3
    /\ sent = <<<<179, 122, 0>>>>
    /\ InSeq("Warning", stdout)

(***************************************************************************)
(* Concurrent callers.                                                     *)
(***************************************************************************)
\* C15: under every interleaving of the threads' calls, each call of
\* validate_midi_value, validate_midi_channel and
\* create_midi_cc_122_message returns exactly what the call returns when
\* it runs alone on the same input.
C15_CallsAreIndependent ==
    \A t \in Threads :
        LET in == ConcInputs[tidx[t]]
        IN  /\ tv[t] # NotCalled => tv[t] = validate_midi_value(in)
            /\ tc[t] # NotCalled => tc[t] = validate_midi_channel(in)
            /\ tpc[t] = "next" =>
                   tm[t] = create_midi_cc_122_message(
                               validate_midi_value(in)[1],
                               validate_midi_channel(in)[1])

C15_Witness ==
    /\ tidx[1] = 4
    /\ tpc[1] = "next"
    /\ Len(tv[1][2]) = 1
    /\ tm[1] = <<"Ok", <<176, 122, 0>>>>
    /\ tidx[2] = 2
    /\ tpc[2] = "channel_match"
    /\ tv[2] = <<64, None>>

====
